---- MODULE Spec2Model ----
(***************************************************************************)
(* Classification-and-disposal pipeline of EnterpriseAppDataCleaner        *)
(* (src/cleaner.py): the directory walk of scan_with_compliance, the       *)
(* classifier is_enterprise_software_linked, the framework rules behind    *)
(* check_compliance, analyze_cleanup_impact, secure_delete_file and the    *)
(* disposal loop of cleanup_appdata_directory.                             *)
(*                                                                         *)
(* A Python str is a sequence of one-character strings, so that lower(),   *)
(* the `in` substring test and Path.suffix are computed, not assumed.  A   *)
(* Path is the sequence of its components; str(path) joins them with the   *)
(* separator.  Times are in seconds, sizes in bytes.                       *)
(***************************************************************************)
EXTENDS Integers, Sequences, FiniteSets, TLC

-----------------------------------------------------------------------------
(* Strings *)

protected_patterns ==
  << <<"s","y","s","t","e","m","3","2">>, <<"s","y","s","w","o","w","6","4">>, <<"w","i","n","d","o","w","s">>,
     <<"p","r","o","g","r","a","m"," ","f","i","l","e","s">>, <<"c","e","r","t","i","f","i","c","a","t","e","s">>,
     <<"k","e","y","s">>, <<"c","r","y","p","t","o">>, <<"s","e","c","u","r","i","t","y">>, <<".","s","s","h">>,
     <<".","g","n","u","p","g">>, <<"c","r","e","d","e","n","t","i","a","l","s">> >>

sensitive_patterns ==
  << <<"p","a","s","s","w","o","r","d">>, <<"s","e","c","r","e","t">>, <<"k","e","y">>, <<"t","o","k","e","n">>,
     <<"c","r","e","d","e","n","t","i","a","l">>, <<"s","s","n">>, <<"s","o","c","i","a","l"," ","s","e","c","u","r","i","t","y">>,
     <<"p","a","s","s","p","o","r","t">>, <<"l","i","c","e","n","s","e">>, <<"c","o","n","f","i","d","e","n","t","i","a","l">>,
     <<"r","e","s","t","r","i","c","t","e","d">>, <<"c","l","a","s","s","i","f","i","e","d">> >>

classification_markers ==
  << <<"c","o","n","f","i","d","e","n","t","i","a","l">>, <<"r","e","s","t","r","i","c","t","e","d">>,
     <<"s","e","c","r","e","t">>, <<"t","o","p"," ","s","e","c","r","e","t">>, <<"i","n","t","e","r","n","a","l">>,
     <<"p","r","o","p","r","i","e","t","a","r","y">>, <<"c","l","a","s","s","i","f","i","e","d">> >>

financial_patterns ==
  << <<"f","i","n","a","n","c","i","a","l">>, <<"a","c","c","o","u","n","t","i","n","g">>, <<"r","e","v","e","n","u","e">>,
     <<"e","x","p","e","n","s","e">>, <<"i","n","v","o","i","c","e">>, <<"p","a","y","m","e","n","t">>,
     <<"t","r","a","n","s","a","c","t","i","o","n">>, <<"a","u","d","i","t">>, <<"b","u","d","g","e","t">>,
     <<"c","o","s","t">>, <<"p","r","o","f","i","t">>, <<"l","o","s","s">> >>

pci_patterns ==
  << <<"c","a","r","d">>, <<"c","r","e","d","i","t">>, <<"d","e","b","i","t">>, <<"p","a","y","m","e","n","t">>,
     <<"p","a","n">>, <<"c","a","r","d","h","o","l","d","e","r">>, <<"c","v","v">>, <<"e","x","p","i","r","y">>,
     <<"v","i","s","a">>, <<"m","a","s","t","e","r","c","a","r","d">> >>

protected_enterprise ==
  { <<"m","i","c","r","o","s","o","f","t">>, <<"o","f","f","i","c","e">>, <<"t","e","a","m","s">>,
     <<"o","u","t","l","o","o","k">>, <<"o","n","e","d","r","i","v","e">>, <<"a","d","o","b","e">>,
     <<"a","c","r","o","b","a","t">>, <<"c","r","e","a","t","i","v","e">>, <<"p","h","o","t","o","s","h","o","p">>,
     <<"z","o","o","m">>, <<"w","e","b","e","x">>, <<"s","l","a","c","k">>, <<"s","k","y","p","e">>,
     <<"v","m","w","a","r","e">>, <<"c","i","t","r","i","x">>, <<"r","d","p">>, <<"a","n","t","i","v","i","r","u","s">>,
     <<"e","n","d","p","o","i","n","t">>, <<"d","e","f","e","n","d","e","r">>, <<"s","y","m","a","n","t","e","c">>,
     <<"m","c","a","f","e","e">>, <<"t","a","b","l","e","a","u">>, <<"p","o","w","e","r","b","i">>,
     <<"s","p","l","u","n","k">>, <<"d","a","t","a","d","o","g">>, <<"j","e","n","k","i","n","s">>,
     <<"g","i","t">>, <<"d","o","c","k","e","r">>, <<"k","u","b","e","r","n","e","t","e","s">>,
     <<"c","h","r","o","m","e">>, <<"f","i","r","e","f","o","x">>, <<"e","d","g","e">>, <<"j","a","v","a">>,
     <<"p","y","t","h","o","n">> }

development_tools ==
  { <<"v","s","c","o","d","e">>, <<"v","i","s","u","a","l","s","t","u","d","i","o">>, <<"i","n","t","e","l","l","i","j">>,
     <<"e","c","l","i","p","s","e">>, <<"n","o","d","e","j","s">>, <<"n","p","m">>, <<"g","r","a","d","l","e">>,
     <<"m","a","v","e","n">>, <<"p","o","s","t","m","a","n">>, <<"i","n","s","o","m","n","i","a">>,
     <<"w","i","r","e","s","h","a","r","k">> }

enterprise_extensions ==
  { <<".","p","f","x">>, <<".","p","1","2">>, <<".","c","r","t">>, <<".","c","e","r">>, <<".","k","e","y">>,
     <<".","m","s","i">>, <<".","m","s","p">>, <<".","r","e","g">>, <<".","p","o","l">>, <<".","a","d","m","x">>,
     <<".","a","d","m","l">>, <<".","r","d","p">>, <<".","v","n","c">> }

LowerChar(c) ==
  CASE c = "A" -> "a"
    [] c = "B" -> "b"
    [] c = "C" -> "c"
    [] c = "D" -> "d"
    [] c = "E" -> "e"
    [] c = "F" -> "f"
    [] c = "G" -> "g"
    [] c = "H" -> "h"
    [] c = "I" -> "i"
    [] c = "J" -> "j"
    [] c = "K" -> "k"
    [] c = "L" -> "l"
    [] c = "M" -> "m"
    [] c = "N" -> "n"
    [] c = "O" -> "o"
    [] c = "P" -> "p"
    [] c = "Q" -> "q"
    [] c = "R" -> "r"
    [] c = "S" -> "s"
    [] c = "T" -> "t"
    [] c = "U" -> "u"
    [] c = "V" -> "v"
    [] c = "W" -> "w"
    [] c = "X" -> "x"
    [] c = "Y" -> "y"
    [] c = "Z" -> "z"
    [] OTHER -> c

\* str.lower()
lower(s) == [i \in 1..Len(s) |-> LowerChar(s[i])]

\* Python's `tok in s` for two strings
Contains(tok, s) ==
  \E i \in 0..(Len(s) - Len(tok)) : SubSeq(s, i + 1, i + Len(tok)) = tok

\* any(pattern in s for pattern in patterns), patterns a list
AnyIn(patterns, s) == \E k \in 1..Len(patterns) : Contains(patterns[k], s)

-----------------------------------------------------------------------------
(* Paths *)

SEP == "\\"

RECURSIVE JoinParts(_)
JoinParts(parts) ==
  IF Len(parts) = 0 THEN <<>>
  ELSE IF Len(parts) = 1 THEN parts[1]
  ELSE parts[1] \o <<SEP>> \o JoinParts(Tail(parts))

\* str(path)
PathStr(p) == JoinParts(p)
\* path.name
PathName(p) == IF Len(p) = 0 THEN <<>> ELSE p[Len(p)]
\* path.parent
PathParent(p) == IF Len(p) = 0 THEN <<>> ELSE SubSeq(p, 1, Len(p) - 1)
\* path.suffix: the part of the name from its last dot, empty when the name
\* has no dot, starts with its only dot, or ends with a dot
PathSuffix(p) ==
  LET name == PathName(p)
      dots == {i \in 1..Len(name) : name[i] = "."}
      last == IF dots = {} THEN 0 ELSE CHOOSE i \in dots : \A j \in dots : j <= i
  IN  IF last > 1 /\ last < Len(name) THEN SubSeq(name, last, Len(name)) ELSE <<>>

-----------------------------------------------------------------------------
(* Configuration and the known-software set *)

\* config['security']['max_file_age_days'] and ['min_file_size_mb']
max_file_age_days == 90
min_file_size_mb == 1

DAY == 24 * 60 * 60
MB == 1024 * 1024

\* self.enterprise_software, in the insertion order of the dict; the two
\* environment-supplied categories hold what the registry and the service
\* list of the modelled host contribute
installed_programs == { <<"c","h","r","o","m","e">> }
running_services == {}

enterprise_software ==
  << [category |-> "installed_programs", software_list |-> installed_programs],
     [category |-> "running_services",   software_list |-> running_services],
     [category |-> "enterprise_apps",    software_list |-> protected_enterprise],
     [category |-> "development_tools",  software_list |-> development_tools] >>

Frameworks == {"nist", "iso27001", "sox", "pci", "hipaa"}

-----------------------------------------------------------------------------
(* Path predicates *)

\* is_protected_directory looking at the directory's own name only
is_protected_directory_NameOnly(directory) ==
  AnyIn(protected_patterns, lower(PathName(directory)))

is_protected_directory(directory) ==
  AnyIn(protected_patterns, lower(PathStr(directory)))

contains_sensitive_data(file_path) ==
  LET file_name  == lower(PathName(file_path))
      parent_dir == lower(PathName(PathParent(file_path)))
  IN  \E k \in 1..Len(sensitive_patterns) :
        \/ Contains(sensitive_patterns[k], file_name)
        \/ Contains(sensitive_patterns[k], parent_dir)

is_classified_information(file_path) ==
  AnyIn(classification_markers, lower(PathStr(file_path)))

contains_financial_data(file_path) ==
  AnyIn(financial_patterns, lower(PathStr(file_path)))

\* contains_cardholder_data looking at the file's name only
contains_cardholder_data_NameOnly(file_path) ==
  AnyIn(pci_patterns, lower(PathName(file_path)))

contains_cardholder_data(file_path) ==
  AnyIn(pci_patterns, lower(PathStr(file_path)))

\* the tokens of one category that occur in the full path, the parent
\* directory's name or the file's name
SoftwareHits(software_list, file_path) ==
  LET file_name   == lower(PathName(file_path))
      parent_name == lower(PathName(PathParent(file_path)))
      full_path   == lower(PathStr(file_path))
  IN  {software \in software_list :
         \/ Contains(software, full_path)
         \/ Contains(software, parent_name)
         \/ Contains(software, file_name)}

-----------------------------------------------------------------------------
(* The modelled directory tree: Root \ A \ B, one file in A and one in B *)

Root == << <<"D",":">>, <<"a","p">> >>

DirNamesA == { <<"t","m","p">>, <<"K","e","y","s">>, <<"S","e","c","r","e","t">> }
DirNamesB == { <<"o","l","d">>, <<"C","a","r","d","s">> }

FileNames ==
  { <<"d","a","t","a",".","b","i","n">>,
    <<"p","a","s","s","w","o","r","d","s",".","t","x","t">>,
    <<"p","a","y","m","e","n","t",".","l","o","g">>,
    <<"a",".","M","S","I">>,
    <<"C","h","r","o","m","e",".","d","b">> }

Files == {1, 2}

AllDirs ==
  {Root} \cup {Root \o <<a>> : a \in DirNamesA}
         \cup {Root \o <<a, b>> : a \in DirNamesA, b \in DirNamesB}

AllPaths == {d \o <<n>> : d \in AllDirs \ {Root}, n \in FileNames}

\* The predicates over the modelled paths, evaluated once
ProtectedDir == [d \in AllDirs |-> is_protected_directory(d)]
Sensitive    == [p \in AllPaths |-> contains_sensitive_data(p)]
Classified   == [p \in AllPaths |-> is_classified_information(p)]
Financial    == [p \in AllPaths |-> contains_financial_data(p)]
Cardholder   == [p \in AllPaths |-> contains_cardholder_data(p)]
Suffix       == [p \in AllPaths |-> lower(PathSuffix(p))]
Hits ==
  [p \in AllPaths |->
     [k \in 1..Len(enterprise_software) |->
        SoftwareHits(enterprise_software[k].software_list, p)]]

-----------------------------------------------------------------------------
(* stat results: [ok |-> TRUE, st_mtime, st_size] or the OSError [ok |-> FALSE] *)

OSError == [ok |-> FALSE]

-----------------------------------------------------------------------------
(* SoftwareLinkClassifier *)

\* f"{file_age_days:.1f}" and f"{file_size_mb:.2f}": the quotient rounded to
\* tenths of a day and to hundredths of a megabyte
AgeText(seconds) == (seconds * 10 + DAY \div 2) \div DAY
SizeText(bytes) == (bytes * 100 + MB \div 2) \div MB

\* the answers of the four rules, where they apply
SoftwareAnswers(file_path) ==
  LET hit == {k \in 1..Len(enterprise_software) : Hits[file_path][k] # {}}
  IN  IF hit = {} THEN {}
      ELSE LET k == CHOOSE i \in hit : \A j \in hit : i <= j
           IN  {[is_linked |-> TRUE,
                 reason |-> [rule |-> "Enterprise software",
                             category |-> enterprise_software[k].category,
                             software |-> s]] : s \in Hits[file_path][k]}

AgeAnswers(t, age_stat) ==
  IF age_stat.ok /\ (t - age_stat.st_mtime) < max_file_age_days * DAY
  THEN {[is_linked |-> TRUE,
         reason |-> [rule |-> "File too recent",
                     age |-> AgeText(t - age_stat.st_mtime),
                     policy |-> max_file_age_days]]}
  ELSE {}

SizeAnswers(size_stat) ==
  IF size_stat.ok /\ size_stat.st_size < min_file_size_mb * MB
  THEN {[is_linked |-> TRUE,
         reason |-> [rule |-> "File too small",
                     size |-> SizeText(size_stat.st_size),
                     policy |-> min_file_size_mb]]}
  ELSE {}

ExtensionAnswers(file_path) ==
  IF Suffix[file_path] \in enterprise_extensions
  THEN {[is_linked |-> TRUE,
         reason |-> [rule |-> "Enterprise file type",
                     suffix |-> PathSuffix(file_path)]]}
  ELSE {}

NoLinks == [is_linked |-> FALSE, reason |-> [rule |-> "No enterprise links found"]]

\* the classifier with no order among its rules: any rule that applies may
\* answer, and so may the fall-through
is_enterprise_software_linked_AnyRule(file_path, t, age_stat, size_stat) ==
  SoftwareAnswers(file_path) \cup AgeAnswers(t, age_stat)
    \cup SizeAnswers(size_stat) \cup ExtensionAnswers(file_path) \cup {NoLinks}

\* The (is_linked, reason) pairs is_enterprise_software_linked can return
\* at time t for the two stat results it obtains; more than one only when
\* several tokens of one set match, where the set's iteration order decides.
is_enterprise_software_linked(file_path, t, age_stat, size_stat) ==
  IF SoftwareAnswers(file_path) # {} THEN SoftwareAnswers(file_path)
  ELSE IF AgeAnswers(t, age_stat) # {} THEN AgeAnswers(t, age_stat)
  ELSE IF SizeAnswers(size_stat) # {} THEN SizeAnswers(size_stat)
  ELSE IF ExtensionAnswers(file_path) # {} THEN ExtensionAnswers(file_path)
  ELSE {NoLinks}

-----------------------------------------------------------------------------
(* ComplianceEvaluator *)

\* the nist rule without its age limit: sensitive data is never compliant
check_nist_compliance_NoAgeLimit(file_path, t, st) ==
  IF ~st.ok
  THEN [compliant |-> TRUE, score |-> 100 - 10,
        issues |-> <<"Compliance check error">>]
  ELSE IF Sensitive[file_path]
  THEN [compliant |-> FALSE, score |-> 100 - 50,
        issues |-> <<"Sensitive data with insufficient retention period">>]
  ELSE [compliant |-> TRUE, score |-> 100, issues |-> <<>>]

check_nist_compliance(file_path, t, st) ==
  IF ~st.ok
  THEN [compliant |-> TRUE, score |-> 100 - 10,
        issues |-> <<"Compliance check error">>]
  ELSE IF Sensitive[file_path] /\ (t - st.st_mtime) < 365 * DAY
  THEN [compliant |-> FALSE, score |-> 100 - 50,
        issues |-> <<"Sensitive data with insufficient retention period">>]
  ELSE [compliant |-> TRUE, score |-> 100, issues |-> <<>>]

check_iso27001_compliance(file_path) ==
  IF Classified[file_path]
  THEN [compliant |-> FALSE, score |-> 100 - 75,
        issues |-> <<"Classified information requires special handling">>]
  ELSE [compliant |-> TRUE, score |-> 100, issues |-> <<>>]

check_sox_compliance(file_path, t, st) ==
  IF Financial[file_path] /\ st.ok /\ (t - st.st_mtime) < (7 * 365) * DAY
  THEN [compliant |-> FALSE, score |-> 100 - 90,
        issues |-> <<"Financial data requires 7-year retention">>]
  ELSE [compliant |-> TRUE, score |-> 100, issues |-> <<>>]

check_pci_compliance(file_path) ==
  IF Cardholder[file_path]
  THEN [compliant |-> FALSE, score |-> 100 - 100,
        issues |-> <<"Potential cardholder data found - requires secure deletion">>]
  ELSE [compliant |-> TRUE, score |-> 100, issues |-> <<>>]

check_compliance(fw, file_path, t, st) ==
  IF fw = "nist" THEN check_nist_compliance(file_path, t, st)
  ELSE IF fw = "iso27001" THEN check_iso27001_compliance(file_path)
  ELSE IF fw = "sox" THEN check_sox_compliance(file_path, t, st)
  ELSE IF fw = "pci" THEN check_pci_compliance(file_path)
  ELSE [compliant |-> TRUE, score |-> 100, issues |-> <<>>]

-----------------------------------------------------------------------------
(* Bounds and inputs *)

\* events in one behaviour: injected I/O failures (a stat, open, write or
\* unlink that raises OSError) and acts of the environment (a file vanishes
\* or is rewritten)
MaxEvents == 1

\* direct calls of the classifier in one behaviour, and advances of the clock
MaxCalls == 2
MaxTicks == 1

\* further calls of cleanup_appdata_directory on one instance
MaxRestarts == 1

NOW0 == 4000 * DAY

N_data      == <<"d","a","t","a",".","b","i","n">>
N_passwords == <<"p","a","s","s","w","o","r","d","s",".","t","x","t">>
N_payment   == <<"p","a","y","m","e","n","t",".","l","o","g">>
N_msi       == <<"a",".","M","S","I">>
N_chrome    == <<"C","h","r","o","m","e",".","d","b">>

\* name, age in days and size of a file when the cleaner starts
Profiles ==
  { [name |-> N_data,      age |-> 400,  size |-> 2 * MB],
    [name |-> N_data,      age |-> 6,    size |-> 2 * MB],
    [name |-> N_data,      age |-> 400,  size |-> MB \div 2],
    [name |-> N_passwords, age |-> 400,  size |-> 2 * MB],
    [name |-> N_passwords, age |-> 100,  size |-> 2 * MB],
    [name |-> N_payment,   age |-> 400,  size |-> 200 * MB],
    [name |-> N_payment,   age |-> 3000, size |-> 2 * MB],
    [name |-> N_msi,       age |-> 400,  size |-> 2 * MB],
    [name |-> N_chrome,    age |-> 400,  size |-> 2 * MB] }

\* the second file is drawn from fewer profiles
Profiles2 ==
  { [name |-> N_data,      age |-> 400,  size |-> 2 * MB],
    [name |-> N_data,      age |-> 100,  size |-> 2 * MB],
    [name |-> N_passwords, age |-> 100,  size |-> 2 * MB] }

\* the names of the two directories
DirChoices ==
  { <<<<"t","m","p">>, <<"o","l","d">>>>,
    <<<<"K","e","y","s">>, <<"o","l","d">>>>,
    <<<<"S","e","c","r","e","t">>, <<"C","a","r","d","s">>>> }

-----------------------------------------------------------------------------
(* State *)

VARIABLES
  dry_run,            \* self.dry_run
  framework,          \* self.security_context['framework']
  dirA, dirB, name,   \* the names in the tree Root \ dirA \ dirB
  fs,                 \* the files on disk: exists, mtime, size, content
  now,                \* time.time()
  pc,                 \* position in cleanup_appdata_directory
  todo_dirs,          \* directories os.walk has still to yield
  todo_files,         \* files of the yielded directory still to process
  scan_results,       \* results of scan_with_compliance
  compliance_result,  \* the last outcome check_compliance returned
  impact_analysis,    \* result of analyze_cleanup_impact
  next_orphan,        \* index of the disposal loop in orphaned_files
  deleted_count,      \* locals of cleanup_appdata_directory
  deleted_size,
  results,            \* self.results: the ledger and the last report
  final_report,       \* what cleanup_appdata_directory returned
  reached,            \* this scan: each file reached, and what exists() did
  passed,             \* this cleanup: each call of secure_delete_file
  io_log,             \* this cleanup: each write and unlink issued
  events,
  calls,              \* the calls of is_enterprise_software_linked made directly
  restarts,           \* further cleanup_appdata_directory calls on the instance
  config,             \* self.config: what validate_configuration and run read
  elevated,           \* self.security_context['elevated']
  directories,        \* run's argument: the target directories
  batch_mode,         \* run's argument
  run_pc,             \* position in run and main
  next_dir,           \* index of run's loop in directories
  all_results,        \* run's local all_results
  run_result,         \* what run returned or raised
  exit_code,          \* what main returned
  abort,              \* an abort request made from outside the cleaner
  target_hosts,       \* batch_deploy's local target_hosts
  futures,            \* batch_deploy's futures, one per submitted host
  deployment_results, \* batch_deploy's local deployment_results
  batch_pc            \* position in batch_deploy

vars ==
  <<dry_run, framework, dirA, dirB, name, fs, now, pc, todo_dirs,
    todo_files, scan_results, compliance_result, impact_analysis,
    next_orphan, deleted_count, deleted_size, results, final_report,
    reached, passed, io_log, events, calls, restarts, config, elevated,
    directories, batch_mode, run_pc, next_dir, all_results, run_result,
    exit_code, abort, target_hosts, futures, deployment_results, batch_pc>>

config_vars == <<dry_run, framework, dirA, dirB, name>>

\* what the cleanup pipeline neither reads nor writes
run_vars ==
  <<config, elevated, directories, batch_mode, run_pc, next_dir,
    all_results, run_result, exit_code>>

batch_vars == <<target_hosts, futures, deployment_results, batch_pc>>

outside_vars == <<calls, restarts, run_vars, abort, batch_vars>>

None == [none |-> TRUE]

\* file 1 lies in Root \ dirA, file 2 in Root \ dirA \ dirB
DirOf(f) == IF f = 1 THEN Root \o <<dirA>> ELSE Root \o <<dirA, dirB>>
FilePath(f) == DirOf(f) \o <<name[f]>>

\* Path(s) for a string s: split at the separator
RECURSIVE SplitPath(_, _)
SplitPath(s, cur) ==
  IF Len(s) = 0 THEN <<cur>>
  ELSE IF Head(s) = SEP THEN <<cur>> \o SplitPath(Tail(s), <<>>)
  ELSE SplitPath(Tail(s), Append(cur, Head(s)))

ParsePath(s) == SplitPath(s, <<>>)

\* the file a path string names, None when no file of the tree has it
FileAt(s) ==
  IF \E f \in Files : PathStr(FilePath(f)) = s
  THEN CHOOSE f \in Files : PathStr(FilePath(f)) = s
  ELSE 0

EmptyScan ==
  [total_files |-> 0, total_size |-> 0, orphaned_files |-> <<>>,
   protected_files |-> <<>>, compliance_issues |-> <<>>, errors |-> <<>>]

\* the instance __init__ leaves, for a tree of two files
NewInstance ==
  /\ dry_run \in BOOLEAN
  /\ framework \in Frameworks
  /\ \E d \in DirChoices : dirA = d[1] /\ dirB = d[2]
  /\ \E prof \in {pr \in [Files -> Profiles \cup Profiles2] :
                     pr[1] \in Profiles /\ pr[2] \in Profiles2} :
       /\ name = [f \in Files |-> prof[f].name]
       /\ fs = [f \in Files |->
                  [exists |-> TRUE, mtime |-> NOW0 - prof[f].age * DAY,
                   size |-> prof[f].size, content |-> "original"]]
  /\ now = NOW0
  /\ pc = "idle"
  /\ todo_dirs = <<>>
  /\ todo_files = <<>>
  /\ scan_results = EmptyScan
  /\ compliance_result = None
  /\ impact_analysis = None
  /\ next_orphan = 1
  /\ deleted_count = 0
  /\ deleted_size = 0
  /\ results = [deleted_files |-> <<>>, deleted_size |-> 0, errors |-> <<>>,
                compliance_report |-> None]
  /\ final_report = None
  /\ reached = <<>>
  /\ passed = <<>>
  /\ io_log = <<>>
  /\ events = 0
  /\ calls = <<>>
  /\ restarts = 0
  /\ abort = FALSE
  /\ target_hosts = <<>>
  /\ futures = <<>>
  /\ deployment_results = None
  /\ batch_pc = "none"

\* the `deployment` section of the configuration load_configuration returns:
\* the default mapping, with target hosts and an SSH key path or without,
\* or what a configuration file put in its place (`deployment:` with no
\* value loads as None, a scalar as text)
DeploymentSections ==
  {[kind |-> "mapping", target_hosts |-> h, ssh_key_path |-> k] :
     h \in {<<>>, <<"host1">>}, k \in BOOLEAN}
    \cup {[kind |-> "null"], [kind |-> "text"]}

DefaultConfig ==
  [require_elevation |-> TRUE,
   deployment |-> [kind |-> "mapping", target_hosts |-> <<>>,
                   ssh_key_path |-> FALSE]]

\* run has not been called
NoRun ==
  /\ config = DefaultConfig
  /\ elevated = TRUE
  /\ directories = <<>>
  /\ batch_mode = FALSE
  /\ run_pc = "none"
  /\ next_dir = 1
  /\ all_results = None
  /\ run_result = None
  /\ exit_code = None

Init == NewInstance /\ NoRun

-----------------------------------------------------------------------------
(* CleanupOrchestrator: entry *)

\* cleanup_appdata_directory up to the call of scan_with_compliance, for
\* the existing directory Root: the disk-space query, the backup and the
\* restore point change nothing the pipeline reads.  The fresh locals of
\* scan_with_compliance and of the disposal loop are set here.
StartCleanup ==
  /\ pc = "idle"
  /\ pc' = "scan"
  /\ todo_dirs' = <<Root>>
  /\ todo_files' = <<>>
  /\ scan_results' = EmptyScan
  /\ impact_analysis' = None
  /\ next_orphan' = 1
  /\ deleted_count' = 0
  /\ deleted_size' = 0
  /\ final_report' = None
  /\ reached' = <<>>
  /\ passed' = <<>>
  /\ io_log' = <<>>
  /\ UNCHANGED <<config_vars, outside_vars, fs, now, compliance_result, results, events>>

-----------------------------------------------------------------------------
(* DirectoryScanner *)

\* the sub-directories os.walk finds in a directory of the tree
SubDirs(d) ==
  IF d = Root THEN <<Root \o <<dirA>>>>
  ELSE IF d = Root \o <<dirA>> THEN <<Root \o <<dirA, dirB>>>>
  ELSE <<>>

\* the file names os.walk lists for a directory: the files present now
RECURSIVE ListFiles(_, _)
ListFiles(d, f) ==
  IF f \notin Files THEN <<>>
  ELSE (IF DirOf(f) = d /\ fs[f].exists THEN <<f>> ELSE <<>>)
       \o ListFiles(d, f + 1)

\* One iteration of `for root, dirs, files in os.walk(directory)`: a
\* protected directory is skipped by `continue`, its sub-directories are
\* still walked (dirs is not pruned).
VisitDir ==
  /\ pc = "scan"
  /\ todo_files = <<>>
  /\ todo_dirs # <<>>
  /\ LET root_path == Head(todo_dirs)
     IN  /\ todo_dirs' = SubDirs(root_path) \o Tail(todo_dirs)
         /\ todo_files' = IF ProtectedDir[root_path] THEN <<>>
                          ELSE ListFiles(root_path, 1)
  /\ UNCHANGED <<config_vars, outside_vars, fs, now, pc, scan_results,
                 compliance_result, impact_analysis, next_orphan,
                 deleted_count, deleted_size, results, final_report, passed,
                 io_log, events,
                 reached>>

\* the stat calls of one loop iteration, by line: 588, 524, 534, 671/705, 610
StatPoints == {"size", "age", "size_mb", "compliance", "modified"}

\* file_path.stat() at one of these points, failing at the points in bad
Stat(f, bad, point) ==
  IF point \in bad \/ ~fs[f].exists THEN OSError
  ELSE [ok |-> TRUE, st_mtime |-> fs[f].mtime, st_size |-> fs[f].size]

\* what file_path.exists() can do: True, False, or raise an OSError other
\* than "not found" (an injected failure)
ExistsOutcomes(f, may_fail) ==
  IF ~fs[f].exists THEN {"false"}
  ELSE IF may_fail THEN {"true", "raise"}
  ELSE {"true"}

\* the stat calls that can be made to fail in one iteration: the first
\* one, after which no other is made, or any of the later ones
BadStats(f, may_fail) ==
  IF fs[f].exists /\ may_fail
  THEN {{"size"}} \cup SUBSET (StatPoints \ {"size"})
  ELSE {{}}

ErrorEntry(file_path) == [path |-> PathStr(file_path), error |-> "OSError"]

\* the loop body with the `else` of line 602 missing: a linked file is
\* recorded as protected and then evaluated like an unlinked one
scan_file_NoElse(sc, file_path, ex, st_size, link, comp, st_modified) ==
  IF ex = "false" THEN sc
  ELSE IF ex = "raise" \/ ~st_size.ok
  THEN [sc EXCEPT !.errors = Append(@, ErrorEntry(file_path))]
  ELSE LET counted == [sc EXCEPT !.total_files = @ + 1,
                                 !.total_size = @ + st_size.st_size]
           listed == IF link.is_linked
                     THEN [counted EXCEPT !.protected_files =
                             Append(@, [path |-> PathStr(file_path),
                                        size |-> st_size.st_size,
                                        reason |-> link.reason])]
                     ELSE counted
       IN  IF comp.compliant
           THEN IF st_modified.ok
                THEN [listed EXCEPT !.orphaned_files =
                        Append(@, [path |-> PathStr(file_path),
                                   size |-> st_size.st_size,
                                   modified |-> st_modified.st_mtime,
                                   compliance_score |-> comp.score])]
                ELSE [listed EXCEPT !.errors =
                        Append(@, ErrorEntry(file_path))]
           ELSE [listed EXCEPT !.compliance_issues =
                   Append(@, [path |-> PathStr(file_path),
                              issues |-> comp.issues])]

\* The body of `for file_name in files` for one file, given what exists()
\* did, the stat results, the classifier's answer and the evaluation:
\* the scan results after it.
scan_file(sc, file_path, ex, st_size, link, comp, st_modified) ==
  IF ex = "false" THEN sc
  ELSE IF ex = "raise" \/ ~st_size.ok
  THEN [sc EXCEPT !.errors = Append(@, ErrorEntry(file_path))]
  ELSE LET counted == [sc EXCEPT !.total_files = @ + 1,
                                 !.total_size = @ + st_size.st_size]
       IN  IF link.is_linked
           THEN [counted EXCEPT !.protected_files =
                   Append(@, [path |-> PathStr(file_path),
                              size |-> st_size.st_size,
                              reason |-> link.reason])]
           ELSE IF comp.compliant
           THEN IF st_modified.ok
                THEN [counted EXCEPT !.orphaned_files =
                        Append(@, [path |-> PathStr(file_path),
                                   size |-> st_size.st_size,
                                   modified |-> st_modified.st_mtime,
                                   compliance_score |-> comp.score])]
                ELSE [counted EXCEPT !.errors =
                        Append(@, ErrorEntry(file_path))]
           ELSE [counted EXCEPT !.compliance_issues =
                   Append(@, [path |-> PathStr(file_path),
                              issues |-> comp.issues])]

\* check_compliance is reached for a file that exists, was counted and is
\* not linked
Evaluated(ex, st_size, link) ==
  ex = "true" /\ st_size.ok /\ ~link.is_linked

ScanFile ==
  /\ pc = "scan"
  /\ todo_files # <<>>
  /\ LET f == Head(todo_files)
         file_path == FilePath(f)
     IN  \E ex \in ExistsOutcomes(f, events < MaxEvents),
            bad \in BadStats(f, events < MaxEvents) :
           LET faulty == ex = "raise" \/ bad # {}
               comp == check_compliance(framework, file_path, now,
                                        Stat(f, bad, "compliance"))
           IN  /\ events' = IF faulty THEN events + 1 ELSE events
               /\ reached' = Append(reached, [path |-> PathStr(file_path),
                                               exists |-> ex])
               /\ \E link \in is_enterprise_software_linked(
                                file_path, now, Stat(f, bad, "age"),
                                Stat(f, bad, "size_mb")) :
                    /\ scan_results' =
                         scan_file(scan_results, file_path, ex,
                                   Stat(f, bad, "size"), link, comp,
                                   Stat(f, bad, "modified"))
                    /\ compliance_result' =
                         IF Evaluated(ex, Stat(f, bad, "size"), link)
                         THEN [path |-> PathStr(file_path), outcome |-> comp]
                         ELSE compliance_result
  /\ todo_files' = Tail(todo_files)
  /\ UNCHANGED <<config_vars, outside_vars, fs, now, pc, todo_dirs,
                 impact_analysis, next_orphan, deleted_count, deleted_size,
                 results, final_report, passed, io_log>>

\* a cleanup that enters the disposal loop as soon as the scan returned
after_scan_NoAnalysis == "dispose"

\* the statement of cleanup_appdata_directory that follows the scan's
\* return: the call of analyze_cleanup_impact (line 1014)
after_scan == "analyze"

\* os.walk is exhausted: scan_with_compliance returns its results
ScanReturn ==
  /\ pc = "scan"
  /\ todo_files = <<>>
  /\ todo_dirs = <<>>
  /\ pc' = after_scan
  /\ UNCHANGED <<config_vars, outside_vars, fs, now, todo_dirs, todo_files,
                 scan_results, compliance_result, impact_analysis,
                 next_orphan, deleted_count, deleted_size, results,
                 final_report, passed, io_log, events,
                 reached>>

-----------------------------------------------------------------------------
(* ImpactAnalyzer *)

RECURSIVE SumSize(_)
SumSize(records) ==
  IF records = <<>> THEN 0 ELSE Head(records).size + SumSize(Tail(records))

IsSensitiveRecord(rec) == Sensitive[ParsePath(rec.path)]
IsRecentRecord(rec) == (now - fs[FileAt(rec.path)].mtime) < 7 * DAY
IsLargeRecord(rec) == rec.size > 100 * MB

\* bands in which a score of exactly 80 is still medium
risk_level_Above80(risk_score) ==
  IF risk_score > 80 THEN "high"
  ELSE IF risk_score >= 50 THEN "medium"
  ELSE "low"

risk_level(risk_score) ==
  IF risk_score >= 80 THEN "high"
  ELSE IF risk_score >= 50 THEN "medium"
  ELSE "low"

\* analyze_cleanup_impact when every stat of line 931 succeeds
analyze_cleanup_impact(sr) ==
  LET sensitive_files == SelectSeq(sr.orphaned_files, IsSensitiveRecord)
      recent_files    == SelectSeq(sr.orphaned_files, IsRecentRecord)
      large_files     == SelectSeq(sr.orphaned_files, IsLargeRecord)
      risk_score == (IF sensitive_files # <<>> THEN 50 ELSE 0)
                      + (IF recent_files # <<>> THEN 30 ELSE 0)
                      + (IF large_files # <<>> THEN 20 ELSE 0)
      level == risk_level(risk_score)
  IN  [total_files_affected |-> Len(sr.orphaned_files),
       total_size_affected |-> SumSize(sr.orphaned_files),
       risk_score |-> risk_score,
       risk_level |-> level,
       warnings |->
         (IF sensitive_files # <<>>
          THEN <<[about |-> "sensitive", found |-> Len(sensitive_files)]>>
          ELSE <<>>)
         \o (IF recent_files # <<>>
             THEN <<[about |-> "recent", found |-> Len(recent_files)]>>
             ELSE <<>>)
         \o (IF large_files # <<>>
             THEN <<[about |-> "large", found |-> Len(large_files)]>>
             ELSE <<>>),
       recommendations |->
         (IF level = "high"
          THEN <<"Review all files before deletion",
                 "Consider running in dry-run mode first">>
          ELSE <<>>)
         \o (IF sensitive_files # <<>>
             THEN <<"Implement secure deletion for sensitive files">>
             ELSE <<>>)]

\* some orphaned file is gone, so that its stat at line 931 raises
OrphanMissing ==
  \E i \in 1..Len(scan_results.orphaned_files) :
    ~fs[FileAt(scan_results.orphaned_files[i].path)].exists

\* analyze_cleanup_impact returns, and the disposal loop is entered
Analyze ==
  /\ pc = "analyze"
  /\ ~OrphanMissing
  /\ impact_analysis' = analyze_cleanup_impact(scan_results)
  /\ pc' = "dispose"
  /\ UNCHANGED <<config_vars, outside_vars, fs, now, todo_dirs, todo_files,
                 scan_results, compliance_result, next_orphan, deleted_count,
                 deleted_size, results, final_report, passed, io_log, events,
                 reached>>

\* a stat of line 931 raises (the file is gone, or one injected failure):
\* nothing in analyze_cleanup_impact or cleanup_appdata_directory catches
\* it, and the call ends with the exception
AnalyzeRaises ==
  /\ pc = "analyze"
  /\ scan_results.orphaned_files # <<>>
  /\ \/ OrphanMissing /\ events' = events
     \/ ~OrphanMissing /\ events < MaxEvents /\ events' = events + 1
  /\ pc' = "raised"
  /\ UNCHANGED <<config_vars, outside_vars, fs, now, todo_dirs, todo_files,
                 scan_results, compliance_result, impact_analysis,
                 next_orphan, deleted_count, deleted_size, results,
                 final_report, passed, io_log,
                 reached>>

-----------------------------------------------------------------------------
(* DisposalEngine *)

\* the passes in another order
PassData_OnesFirst == <<"ones", "zeros", "random">>

\* the bytes of the three passes: b'\x00', b'\xFF', random.getrandbits(8)
PassData == <<"zeros", "ones", "random">>

\* file.write of `length` bytes of `data` from offset 0, flush and fsync
Write(path, data, length, ok) ==
  [op |-> "write", path |-> path, data |-> data, length |-> length, ok |-> ok]
Unlink(path, ok) == [op |-> "unlink", path |-> path, ok |-> ok]

\* the writes of the passes 1..n, all completed
RECURSIVE Passes(_, _, _)
Passes(path, file_size, n) ==
  IF n = 0 THEN <<>>
  ELSE Append(Passes(path, file_size, n - 1),
              Write(path, PassData[n], file_size, TRUE))

\* What lines 790-817 of secure_delete_file can do to a file: whether an
\* exception was raised, the file afterwards, the writes and unlinks
\* issued, whether the failure was an injected one.  A pass that raises (in
\* write, flush or fsync) leaves the file partly overwritten: "partial"
\* stands for any mix of the old bytes and the bytes of that pass.
overwrite_and_unlink(path, file, may_fail) ==
  IF ~file.exists
  THEN \* stat (line 790) raises FileNotFoundError
       {[raised |-> TRUE, file |-> file, ops |-> <<>>, injected |-> FALSE]}
  ELSE
    {[raised |-> FALSE,
      file |-> [file EXCEPT !.exists = FALSE, !.content = "random"],
      ops |-> Append(Passes(path, file.size, 3), Unlink(path, TRUE)),
      injected |-> FALSE]}
    \cup
    (IF ~may_fail THEN {}
     ELSE
       \* stat (line 790) or open (line 793) raises
       {[raised |-> TRUE, file |-> file, ops |-> <<>>, injected |-> TRUE]}
       \cup
       \* pass k raises
       {[raised |-> TRUE,
         file |-> [file EXCEPT !.content = "partial"],
         ops |-> Append(Passes(path, file.size, k - 1),
                        Write(path, PassData[k], file.size, FALSE)),
         injected |-> TRUE] : k \in 1..3}
       \cup
       \* unlink (line 814) raises
       {[raised |-> TRUE,
         file |-> [file EXCEPT !.content = "random"],
         ops |-> Append(Passes(path, file.size, 3), Unlink(path, FALSE)),
         injected |-> TRUE]})

\* secure_delete_file without the dry-run return of lines 786-788
secure_delete_file_IgnoresDryRun(dry, path, file, may_fail) ==
  {[returned |-> ~a.raised, file |-> a.file, ops |-> a.ops,
    injected |-> a.injected] :
     a \in overwrite_and_unlink(path, file, may_fail)}

\* secure_delete_file whose except clause returns True
secure_delete_file_TrueOnFailure(dry, path, file, may_fail) ==
  IF dry
  THEN {[returned |-> TRUE, file |-> file, ops |-> <<>>, injected |-> FALSE]}
  ELSE {[returned |-> TRUE, file |-> a.file, ops |-> a.ops,
         injected |-> a.injected] :
          a \in overwrite_and_unlink(path, file, may_fail)}

\* secure_delete_file: True at once in a dry run; otherwise True when
\* lines 790-817 complete and False when the except clause catches
secure_delete_file(dry, path, file, may_fail) ==
  IF dry
  THEN {[returned |-> TRUE, file |-> file, ops |-> <<>>, injected |-> FALSE]}
  ELSE {[returned |-> ~a.raised, file |-> a.file, ops |-> a.ops,
         injected |-> a.injected] :
          a \in overwrite_and_unlink(path, file, may_fail)}

\* the disposal loop running over the protected files as well
DisposalList_WithProtected(sr) == sr.orphaned_files \o sr.protected_files

\* the list the disposal loop of cleanup_appdata_directory iterates over
DisposalList(sr) == sr.orphaned_files

LedgerEntry(orphaned_file) ==
  [path |-> PathStr(ParsePath(orphaned_file.path)),
   size |-> orphaned_file.size,
   deleted_at |-> now,
   compliance_score |-> IF "compliance_score" \in DOMAIN orphaned_file
                        THEN orphaned_file.compliance_score ELSE 100]

\* One iteration of the disposal loop.  secure_delete_file catches every
\* Exception itself, so the except clause of the loop is never entered.
\* a loop that stops at the first file whose disposal failed
next_iteration_StopOnFailure(returned, i, n) == IF returned THEN i + 1 ELSE n + 1

\* the index the `for` of line 1020 takes after the iteration for entry i
\* of n: the next one, whatever secure_delete_file returned
next_iteration(returned, i, n) == i + 1

DisposeFile ==
  /\ pc = "dispose"
  /\ next_orphan <= Len(DisposalList(scan_results))
  /\ LET orphaned_file == DisposalList(scan_results)[next_orphan]
         file_path == ParsePath(orphaned_file.path)
         f == FileAt(PathStr(file_path))
     IN  \E out \in secure_delete_file(dry_run, PathStr(file_path), fs[f],
                                       events < MaxEvents) :
           /\ fs' = [fs EXCEPT ![f] = out.file]
           /\ io_log' = io_log \o out.ops
           /\ events' = IF out.injected THEN events + 1 ELSE events
           /\ passed' = Append(passed, [path |-> PathStr(file_path),
                                         before |-> fs[f],
                                         returned |-> out.returned])
           /\ IF out.returned
              THEN /\ deleted_count' = deleted_count + 1
                   /\ deleted_size' = deleted_size + orphaned_file.size
                   /\ results' =
                        [results EXCEPT
                           !.deleted_files = Append(@, LedgerEntry(orphaned_file)),
                           !.deleted_size = @ + orphaned_file.size]
              ELSE UNCHANGED <<deleted_count, deleted_size, results>>
           /\ next_orphan' = next_iteration(out.returned, next_orphan,
                                            Len(DisposalList(scan_results)))
  /\ UNCHANGED <<config_vars, outside_vars, now, pc, todo_dirs, todo_files,
                 scan_results, compliance_result, impact_analysis,
                 final_report,
                 reached>>

-----------------------------------------------------------------------------
(* CleanupOrchestrator: report *)

\* generate_compliance_report; the overall score is kept as the two counts
\* whose quotient it is
generate_compliance_report(sr) ==
  [framework |-> framework,
   compliant_files |-> sr.total_files - Len(sr.compliance_issues),
   total_files |-> sr.total_files,
   issues |-> sr.compliance_issues]

\* The disposal loop is exhausted: the compliance report is stored in
\* self.results and the final report returned.
Finish ==
  /\ pc = "dispose"
  /\ next_orphan > Len(DisposalList(scan_results))
  /\ results' = [results EXCEPT !.compliance_report =
                             generate_compliance_report(scan_results)]
  /\ final_report' =
       [cleanup_summary |->
          [total_files_scanned |-> scan_results.total_files,
           total_size_scanned |-> scan_results.total_size,
           orphaned_files_found |-> Len(scan_results.orphaned_files),
           protected_files_found |-> Len(scan_results.protected_files),
           files_deleted |-> deleted_count,
           size_freed |-> deleted_size,
           compliance_issues |-> Len(scan_results.compliance_issues),
           errors |-> Len(scan_results.errors)],
        compliance_report |-> generate_compliance_report(scan_results),
        impact_analysis |-> impact_analysis]
  /\ pc' = "done"
  /\ UNCHANGED <<config_vars, outside_vars, fs, now, todo_dirs, todo_files,
                 scan_results, compliance_result, impact_analysis,
                 next_orphan, deleted_count, deleted_size, passed, io_log,
                 events,
                 reached>>

-----------------------------------------------------------------------------
(* The environment, while a cleanup is running *)

Running == pc \in {"scan", "analyze", "dispose"}

IsPrefix(d, e) == Len(d) <= Len(e) /\ SubSeq(e, 1, Len(d)) = d

\* The running cleanup will still read file f: the walk has not reached it,
\* or it is an orphaned file whose disposal is still to come.  What happens
\* to any other file changes nothing the cleanup does, and is left out.
StillToRead(f) ==
  \/ /\ pc = "scan"
     /\ \/ \E i \in 1..Len(todo_files) : todo_files[i] = f
        \/ \E i \in 1..Len(todo_dirs) : IsPrefix(todo_dirs[i], DirOf(f))
  \/ /\ Running
     /\ \E i \in 1..Len(scan_results.orphaned_files) :
          /\ i >= next_orphan
          /\ scan_results.orphaned_files[i].path = PathStr(FilePath(f))

\* another process removes a file
Vanish ==
  /\ Running
  /\ events < MaxEvents
  /\ \E f \in Files :
       /\ StillToRead(f)
       /\ fs[f].exists
       /\ fs' = [fs EXCEPT ![f].exists = FALSE]
  /\ events' = events + 1
  /\ UNCHANGED <<config_vars, outside_vars, now, pc, todo_dirs, todo_files,
                 scan_results, compliance_result, impact_analysis,
                 next_orphan, deleted_count, deleted_size, results,
                 final_report, passed, io_log,
                 reached>>

\* another process rewrites a file: its modification time becomes now
Touch ==
  /\ Running
  /\ events < MaxEvents
  /\ \E f \in Files :
       /\ StillToRead(f)
       /\ fs[f].exists
       /\ fs[f].mtime # now
       /\ fs' = [fs EXCEPT ![f].mtime = now, ![f].content = "rewritten"]
  /\ events' = events + 1
  /\ UNCHANGED <<config_vars, outside_vars, now, pc, todo_dirs, todo_files,
                 scan_results, compliance_result, impact_analysis,
                 next_orphan, deleted_count, deleted_size, results,
                 final_report, passed, io_log,
                 reached>>

-----------------------------------------------------------------------------

Next ==
  \/ StartCleanup
  \/ VisitDir
  \/ ScanFile
  \/ ScanReturn
  \/ Analyze
  \/ AnalyzeRaises
  \/ DisposeFile
  \/ Finish
  \/ Vanish
  \/ Touch

Spec == Init /\ [][Next]_vars

-----------------------------------------------------------------------------
(* The classifier called on its own, at different times *)

\* what the pipeline's variables keep while the classifier is called
pipeline_vars ==
  <<pc, todo_dirs, todo_files, scan_results, compliance_result,
    impact_analysis, next_orphan, deleted_count, deleted_size, results,
    final_report, reached, passed, io_log>>

\* the clock reading of time.time() between two calls
ClockStep == 84 * DAY

\* is_enterprise_software_linked(file_path) for a file of the tree; either
\* of its two stat calls may raise OSError
Classify ==
  /\ Len(calls) < MaxCalls
  /\ \E f \in Files, bad \in SUBSET {"age", "size_mb"} :
       /\ bad # {} => events < MaxEvents
       /\ events' = IF bad # {} THEN events + 1 ELSE events
       /\ \E link \in is_enterprise_software_linked(
                        FilePath(f), now, Stat(f, bad, "age"),
                        Stat(f, bad, "size_mb")) :
            calls' = Append(calls,
                       [f |-> f, path |-> PathStr(FilePath(f)), t |-> now,
                        file |-> fs[f],
                        age_stat |-> Stat(f, bad, "age"),
                        size_stat |-> Stat(f, bad, "size_mb"),
                        link |-> link])
  /\ UNCHANGED <<config_vars, pipeline_vars, fs, now, restarts, run_vars,
                 abort, batch_vars>>

\* time passes between two calls
Tick ==
  /\ now < NOW0 + MaxTicks * ClockStep
  /\ now' = now + ClockStep
  /\ UNCHANGED <<config_vars, pipeline_vars, fs, events, calls, restarts,
                 run_vars, abort, batch_vars>>

ClassifyInit == NewInstance /\ NoRun /\ framework = "nist" /\ dry_run

ClassifyNext == Classify \/ Tick

ClassifySpec == ClassifyInit /\ [][ClassifyNext]_vars

-----------------------------------------------------------------------------
(* cleanup_appdata_directory called again on the same instance *)

\* a further call for the same directory, after the previous one returned:
\* the locals are fresh, self.results is kept
RestartCleanup ==
  /\ pc = "done"
  /\ restarts < MaxRestarts
  /\ restarts' = restarts + 1
  /\ pc' = "scan"
  /\ todo_dirs' = <<Root>>
  /\ todo_files' = <<>>
  /\ scan_results' = EmptyScan
  /\ impact_analysis' = None
  /\ next_orphan' = 1
  /\ deleted_count' = 0
  /\ deleted_size' = 0
  /\ final_report' = None
  /\ reached' = <<>>
  /\ passed' = <<>>
  /\ io_log' = <<>>
  /\ UNCHANGED <<config_vars, fs, now, compliance_result, results, events,
                 calls, run_vars, abort, batch_vars>>

RepeatInit == Init /\ framework = "nist" /\ dirA = <<"t","m","p">>

RepeatNext == Next \/ RestartCleanup

RepeatSpec == RepeatInit /\ [][RepeatNext]_vars

-----------------------------------------------------------------------------
(* a cleanup during which an abort is requested from outside *)

\* an abort is requested while cleanup_appdata_directory runs.  No statement
\* of scan_with_compliance (573-624) or of the disposal loop (1020-1044)
\* reads such a request, so no action of the cleanup has it in its guard.
RaiseAbort ==
  /\ Running
  /\ ~abort
  /\ abort' = TRUE
  /\ UNCHANGED <<config_vars, pipeline_vars, fs, now, events, calls, restarts,
                 run_vars, batch_vars>>

AbortInit == Init /\ framework = "nist" /\ dirA = <<"t","m","p">>

AbortNext == Next \/ RaiseAbort

AbortSpec == AbortInit /\ [][AbortNext]_vars

-----------------------------------------------------------------------------
(* run and main, for an instance whose construction completed.  __init__ as
   written reads self.config_mgmt_client (line 284) before assigning it
   (line 77); main answers the resulting exception with exit code 1. *)

\* targets run can be given: two directories that exist, one that does not
Targets ==
  {[path |-> "A", exists |-> TRUE], [path |-> "B", exists |-> TRUE],
   [path |-> "M", exists |-> FALSE]}

MaxTargets == 2

RECURSIVE SeqsUpTo(_, _)
SeqsUpTo(S, n) ==
  IF n = 0 THEN {<<>>}
  ELSE LET shorter == SeqsUpTo(S, n - 1)
       IN  shorter \cup {Append(q, x) : q \in shorter, x \in S}

\* validate_configuration: "true", "false", or "raise" when the check of a
\* required field or of the deployment settings meets a section that is
\* not a mapping (TypeError at line 1328 or 1338)
validate_configuration(cfg, elev) ==
  IF cfg.deployment.kind # "mapping" THEN "raise"
  ELSE IF cfg.require_elevation /\ ~elev THEN "false"
  ELSE IF cfg.deployment.target_hosts # <<>> /\ ~cfg.deployment.ssh_key_path
  THEN "false"
  ELSE "true"

\* batch_deploy: deploy_to_host returns a dict for every host, also when
\* the deployment failed, so every host is counted as successful
batch_deploy(cfg) ==
  IF cfg.deployment.target_hosts = <<>>
  THEN [error |-> "No target hosts specified"]
  ELSE [total_hosts |-> Len(cfg.deployment.target_hosts),
        successful |-> Len(cfg.deployment.target_hosts),
        failed |-> 0]

\* run up to its loop
RunStart ==
  /\ run_pc = "called"
  /\ LET v == validate_configuration(config, elevated)
     IN  IF v = "raise"
         THEN /\ run_pc' = "raised"
              /\ run_result' = [raised |-> "TypeError"]
              /\ UNCHANGED all_results
         ELSE IF v = "false"
         THEN /\ run_pc' = "returned"
              /\ run_result' = [error |-> "Configuration validation failed"]
              /\ UNCHANGED all_results
         ELSE IF batch_mode
         THEN /\ run_pc' = "returned"
              /\ run_result' = batch_deploy(config)
              /\ UNCHANGED all_results
         ELSE /\ run_pc' = "loop"
              /\ all_results' = [directories_processed |-> <<>>,
                                 total_files_deleted |-> 0,
                                 total_size_freed |-> 0,
                                 errors |-> <<>>]
              /\ UNCHANGED run_result
  /\ UNCHANGED <<config_vars, pipeline_vars, fs, now, events, calls, restarts,
                 abort, batch_vars,
                 config, elevated, directories, batch_mode, next_dir,
                 exit_code>>

\* one iteration of `for directory in directories`: a directory that does
\* not exist is passed over; for one that exists the call of
\* self.clean_appdata_directory raises AttributeError (the class has no
\* such method), which the loop records
RunDirectory ==
  /\ run_pc = "loop"
  /\ next_dir <= Len(directories)
  /\ LET directory == directories[next_dir]
     IN  all_results' =
           IF directory.exists
           THEN [all_results EXCEPT !.errors =
                   Append(@, [directory |-> directory.path,
                              error |-> "AttributeError"])]
           ELSE all_results
  /\ next_dir' = next_dir + 1
  /\ UNCHANGED <<config_vars, pipeline_vars, fs, now, events, calls, restarts,
                 abort, batch_vars,
                 config, elevated, directories, batch_mode, run_pc,
                 run_result, exit_code>>

\* after the loop: the report is generated and written to a file in the
\* working directory, which can fail, and all_results is returned
RunReturn ==
  /\ run_pc = "loop"
  /\ next_dir > Len(directories)
  /\ \E saved \in BOOLEAN :
       IF saved
       THEN run_pc' = "returned" /\ run_result' = all_results
       ELSE run_pc' = "raised" /\ run_result' = [raised |-> "OSError"]
  /\ UNCHANGED <<config_vars, pipeline_vars, fs, now, events, calls, restarts,
                 abort, batch_vars,
                 config, elevated, directories, batch_mode, next_dir,
                 all_results, exit_code>>

\* main after run: 0 unless the result has the key 'error' or an exception
\* reached main
Main ==
  /\ run_pc \in {"returned", "raised"}
  /\ exit_code = None
  /\ exit_code' = [code |-> IF run_pc = "raised" THEN 1
                            ELSE IF "error" \in DOMAIN run_result THEN 1
                            ELSE 0]
  /\ UNCHANGED <<config_vars, pipeline_vars, fs, now, events, calls, restarts,
                 abort, batch_vars,
                 config, elevated, directories, batch_mode, run_pc, next_dir,
                 all_results, run_result>>

\* main calls run on a new instance
RunInit ==
  /\ NewInstance
  /\ framework = "nist"
  /\ dirA = <<"t","m","p">>
  /\ name = [f \in Files |-> N_data]
  /\ \A f \in Files : fs[f].mtime = NOW0 - 400 * DAY /\ fs[f].size = 2 * MB
  /\ config \in [require_elevation : BOOLEAN, deployment : DeploymentSections]
  /\ elevated \in BOOLEAN
  /\ directories \in SeqsUpTo(Targets, MaxTargets) \ {<<>>}
  /\ batch_mode \in BOOLEAN
  /\ run_pc = "called"
  /\ next_dir = 1
  /\ all_results = None
  /\ run_result = None
  /\ exit_code = None

RunNext == RunStart \/ RunDirectory \/ RunReturn \/ Main

RunSpec == RunInit /\ [][RunNext]_vars

-----------------------------------------------------------------------------
(* batch_deploy, step by step: the pool's workers run deploy_to_host for the
   submitted hosts, and the loop over as_completed records each future as
   it completes *)

\* the hosts a batch can name: the local machine and two remote ones
Hosts == {"localhost", "host1", "host2"}

MaxHosts == 2

\* config['deployment']['parallel_threads']
ThreadChoices == {1, 2}

\* deploy_to_host: for the local machine the call of
\* self.clean_appdata_directory raises AttributeError (the class has no such
\* method), which the except of line 1211 turns into an error result; for a
\* remote host the WinRM or the SSH placeholder is returned
deploy_to_host(host, cfg) ==
  IF host = "localhost"
  THEN [error |-> "AttributeError"]
  ELSE IF cfg.deployment.winrm_config
  THEN [host |-> host, method |-> "winrm", status |-> "not_implemented"]
  ELSE [host |-> host, method |-> "ssh", status |-> "not_implemented"]

\* a loop body that passes over the hosts whose result holds an error
record_result_SkipsErrorResults(dr, host, outcome) ==
  IF outcome.kind = "returned" /\ "error" \in DOMAIN outcome.value
  THEN dr
  ELSE IF outcome.kind = "returned"
  THEN [dr EXCEPT !.results = Append(@, [host |-> host, status |-> "success",
                                         result |-> outcome.value]),
                  !.successful = @ + 1]
  ELSE [dr EXCEPT !.results = Append(@, [host |-> host, status |-> "failed",
                                         error |-> outcome.value]),
                  !.failed = @ + 1]

\* the body of the loop over as_completed (1178-1193): a future whose
\* result() returns is recorded as a success, one whose result() raises as
\* a failure
record_result(dr, host, outcome) ==
  IF outcome.kind = "returned"
  THEN [dr EXCEPT !.results = Append(@, [host |-> host, status |-> "success",
                                         result |-> outcome.value]),
                  !.successful = @ + 1]
  ELSE [dr EXCEPT !.results = Append(@, [host |-> host, status |-> "failed",
                                         error |-> outcome.value]),
                  !.failed = @ + 1]

\* batch_deploy up to the loop: the hosts are the argument or, without one,
\* the configured hosts; every host is submitted to the pool
BatchStart ==
  /\ batch_pc = "none"
  /\ \E arg \in SeqsUpTo(Hosts, 1) :
       target_hosts' = IF arg = <<>> THEN config.deployment.target_hosts
                       ELSE arg
  /\ IF target_hosts' = <<>>
     THEN /\ deployment_results' = [error |-> "No target hosts specified"]
          /\ futures' = <<>>
          /\ batch_pc' = "returned"
     ELSE /\ deployment_results' = [total_hosts |-> Len(target_hosts'),
                                    successful |-> 0,
                                    failed |-> 0,
                                    results |-> <<>>]
          /\ futures' = [i \in 1..Len(target_hosts') |->
                           [host |-> target_hosts'[i], state |-> "pending",
                            outcome |-> None]]
          /\ batch_pc' = "collect"
  /\ UNCHANGED <<config_vars, pipeline_vars, fs, now, events, calls, restarts,
                 run_vars, abort>>

\* a free worker of the pool takes a submitted call
WorkerTake ==
  /\ batch_pc = "collect"
  /\ \E i \in 1..Len(futures) :
       /\ futures[i].state = "pending"
       /\ Cardinality({j \in 1..Len(futures) : futures[j].state = "running"})
            < config.deployment.parallel_threads
       /\ futures' = [futures EXCEPT ![i].state = "running"]
  /\ UNCHANGED <<config_vars, pipeline_vars, fs, now, events, calls, restarts,
                 run_vars, abort, target_hosts, deployment_results, batch_pc>>

\* deploy_to_host returns in a worker: the future is completed
WorkerFinish ==
  /\ batch_pc = "collect"
  /\ \E i \in 1..Len(futures) :
       /\ futures[i].state = "running"
       /\ futures' =
            [futures EXCEPT
               ![i].state = "done",
               ![i].outcome = [kind |-> "returned",
                               value |-> deploy_to_host(futures[i].host,
                                                        config)]]
  /\ UNCHANGED <<config_vars, pipeline_vars, fs, now, events, calls, restarts,
                 run_vars, abort, target_hosts, deployment_results, batch_pc>>

\* as_completed yields a completed future, and the loop body records it
Collect ==
  /\ batch_pc = "collect"
  /\ \E i \in 1..Len(futures) :
       /\ futures[i].state = "done"
       /\ deployment_results' =
            record_result(deployment_results, futures[i].host,
                          futures[i].outcome)
       /\ futures' = [futures EXCEPT ![i].state = "collected"]
  /\ UNCHANGED <<config_vars, pipeline_vars, fs, now, events, calls, restarts,
                 run_vars, abort, target_hosts, batch_pc>>

\* as_completed is exhausted: the pool is shut down and deployment_results
\* is returned
BatchReturn ==
  /\ batch_pc = "collect"
  /\ \A i \in 1..Len(futures) : futures[i].state = "collected"
  /\ batch_pc' = "returned"
  /\ UNCHANGED <<config_vars, pipeline_vars, fs, now, events, calls, restarts,
                 run_vars, abort, target_hosts, futures, deployment_results>>

\* batch_deploy is called on a new instance whose configuration names up to
\* MaxHosts hosts
BatchInit ==
  /\ NewInstance
  /\ framework = "nist"
  /\ dry_run
  /\ dirA = <<"t","m","p">>
  /\ name = [f \in Files |-> N_data]
  /\ \A f \in Files : fs[f].mtime = NOW0 - 400 * DAY /\ fs[f].size = 2 * MB
  /\ config \in
       {[require_elevation |-> TRUE,
         deployment |-> [kind |-> "mapping", target_hosts |-> h,
                         ssh_key_path |-> TRUE, winrm_config |-> w,
                         parallel_threads |-> n]] :
          h \in SeqsUpTo(Hosts, MaxHosts), w \in BOOLEAN, n \in ThreadChoices}
  /\ elevated = TRUE
  /\ directories = <<>>
  /\ batch_mode = TRUE
  /\ run_pc = "none"
  /\ next_dir = 1
  /\ all_results = None
  /\ run_result = None
  /\ exit_code = None

BatchNext ==
  BatchStart \/ WorkerTake \/ WorkerFinish \/ Collect \/ BatchReturn

BatchSpec == BatchInit /\ [][BatchNext]_vars

-----------------------------------------------------------------------------
(* the framework of the security context, from the configuration *)

\* the two sections of the default configuration that name a framework or
\* are read for one: `enterprise` defines security_framework (line 86),
\* `security` does not (110-118)
DefaultSections ==
  [enterprise |-> [security_framework |-> "nist"],
   security |-> [require_elevation |-> TRUE]]

\* what a configuration file can hold for the two sections: the key
\* security_framework, set to one of the frameworks, or no such key
UserSections ==
  LET choices == {<<>>} \cup {[security_framework |-> f] : f \in Frameworks}
  IN  {[enterprise |-> e, security |-> s] : e \in choices, s \in choices}

\* deep_merge_config: a key of the update replaces the base's value, and
\* two mappings under one key are merged the same way
deep_merge_config(base, update) ==
  [section \in DOMAIN base |->
     [key \in DOMAIN base[section] \cup DOMAIN update[section] |->
        IF key \in DOMAIN update[section] THEN update[section][key]
        ELSE base[section][key]]]

\* initialize_security_context: the framework is read from the `security`
\* section, 'nist' when the section has no such key
initialize_security_context(cfg) ==
  [framework |-> IF "security_framework" \in DOMAIN cfg.security
                 THEN cfg.security.security_framework
                 ELSE "nist"]

\* check_compliance(file_path) called for a file of the tree
CheckCompliance ==
  /\ \E f \in Files :
       /\ fs[f].exists
       /\ compliance_result' =
            [path |-> PathStr(FilePath(f)),
             outcome |-> check_compliance(framework, FilePath(f), now,
                                          Stat(f, {}, "compliance"))]
  /\ UNCHANGED <<config_vars, fs, now, pc, todo_dirs, todo_files,
                 scan_results, impact_analysis, next_orphan, deleted_count,
                 deleted_size, results, final_report, reached, passed,
                 io_log, events, outside_vars>>

\* an instance constructed from a configuration file
FrameworkInit ==
  /\ NewInstance
  /\ dry_run
  /\ dirA = <<"t","m","p">>
  /\ config \in {deep_merge_config(DefaultSections, u) : u \in UserSections}
  /\ framework = initialize_security_context(config).framework
  /\ elevated = TRUE
  /\ directories = <<>>
  /\ batch_mode = FALSE
  /\ run_pc = "none"
  /\ next_dir = 1
  /\ all_results = None
  /\ run_result = None
  /\ exit_code = None

FrameworkNext == CheckCompliance

FrameworkSpec == FrameworkInit /\ [][FrameworkNext]_vars

-----------------------------------------------------------------------------
(* Properties *)

PathsOf(records) == {records[i].path : i \in 1..Len(records)}

Count(records, p) == Cardinality({i \in 1..Len(records) : records[i].path = p})

\* the number of scan-list entries a path has
Dispositions(p) ==
  Count(scan_results.protected_files, p) + Count(scan_results.orphaned_files, p)
    + Count(scan_results.compliance_issues, p) + Count(scan_results.errors, p)

\* scan_with_compliance has returned in the current cleanup
ScanReturned == pc \in {"analyze", "dispose", "done", "raised"}

\* the ledger entries the current cleanup appended
ThisLedger ==
  SubSeq(results.deleted_files,
         Len(results.deleted_files) - deleted_count + 1,
         Len(results.deleted_files))

\* the writes and unlinks the current cleanup issued on a path
OpsOn(p) == SelectSeq(io_log, LAMBDA op : op.path = p)

\* three completed passes, then a completed unlink
FullDisposal(p) == Append(Passes(p, fs[FileAt(p)].size, 3), Unlink(p, TRUE))

\* C1: in a cleanup, the files handed to secure_delete_file are the scan's
\* orphaned_files, in order (all of them once the cleanup has completed),
\* and no file the scan recorded as protected or as non-compliant is
\* handed over, written, unlinked or entered in deleted_files.
C1_OnlyOrphansDisposed ==
  LET orphans == scan_results.orphaned_files
      kept == PathsOf(scan_results.protected_files)
                \cup PathsOf(scan_results.compliance_issues)
  IN  /\ Len(passed) <= Len(orphans)
      /\ \A i \in 1..Len(passed) : passed[i].path = orphans[i].path
      /\ pc = "done" => Len(passed) = Len(orphans)
      /\ PathsOf(passed) \cap kept = {}
      /\ PathsOf(io_log) \cap kept = {}
      /\ PathsOf(ThisLedger) \cap kept = {}

C1_Witness ==
  /\ pc = "done"
  /\ ~dry_run
  /\ Len(passed) = 1
  /\ Len(scan_results.compliance_issues) = 1
  /\ OpsOn(passed[1].path) = FullDisposal(passed[1].path)

\* C2: in a dry run the disposal pass issues no write and no unlink, and
\* every file handed to secure_delete_file is afterwards exactly as it was
\* when it was handed over (existence, size, modification time, content).
C2_DryRunMutatesNothing ==
  dry_run =>
    /\ io_log = <<>>
    /\ \A i \in 1..Len(passed) : fs[FileAt(passed[i].path)] = passed[i].before

C2_Witness ==
  /\ dry_run
  /\ pc = "done"
  /\ Len(passed) = 2
  /\ \A i \in 1..Len(passed) :
       /\ passed[i].returned
       /\ fs[FileAt(passed[i].path)].exists
       /\ fs[FileAt(passed[i].path)].content = "original"

\* C3: after scan_with_compliance, len(protected_files) + len(orphaned_files)
\* + len(compliance_issues) + len(errors) == total_files.
C3_Claim ==
  ScanReturned =>
    Len(scan_results.protected_files) + Len(scan_results.orphaned_files)
      + Len(scan_results.compliance_issues) + Len(scan_results.errors)
      = scan_results.total_files

C5_LedgerOnlyOnSuccess ==
  ~dry_run =>
    /\ \A i \in 1..Len(ThisLedger) :
         /\ OpsOn(ThisLedger[i].path) = FullDisposal(ThisLedger[i].path)
         /\ ~fs[FileAt(ThisLedger[i].path)].exists
    /\ \A i \in 1..Len(passed) :
         OpsOn(passed[i].path) # FullDisposal(passed[i].path)
           => passed[i].path \notin PathsOf(ThisLedger)
    /\ deleted_count =
         Cardinality({i \in 1..Len(passed) :
                        OpsOn(passed[i].path) = FullDisposal(passed[i].path)})
    /\ pc = "done" => final_report.cleanup_summary.files_deleted = deleted_count

C5_Witness ==
  /\ ~dry_run
  /\ pc = "done"
  /\ Len(passed) = 2
  /\ Len(ThisLedger) = 1
  /\ \E i \in 1..2 : OpsOn(passed[i].path) # FullDisposal(passed[i].path)
                       /\ OpsOn(passed[i].path) # <<>>

\* C6: in live mode, whenever the disposal of a file fails, results.errors
\* holds a failure entry for that path with a non-empty cause.
C6_Claim ==
  ~dry_run =>
    \A i \in 1..Len(passed) :
      ~passed[i].returned =>
        \E k \in 1..Len(results.errors) :
          /\ results.errors[k].path = passed[i].path
          /\ results.errors[k].error # ""

\* some directory on the way from Root to the file's directory is protected
UnderProtectedDir(f) ==
  \E k \in Len(Root)..Len(DirOf(f)) : ProtectedDir[SubSeq(DirOf(f), 1, k)]

\* C7: a file in a protected directory, or anywhere below one, is not
\* counted in total_files, has no scan-list entry and is never reached,
\* handed to disposal, written or unlinked.
C7_ProtectedSubtreeUntouched ==
  /\ \A f \in Files :
       UnderProtectedDir(f) =>
         LET p == PathStr(FilePath(f))
         IN  /\ Dispositions(p) = 0
             /\ p \notin PathsOf(reached)
             /\ p \notin PathsOf(passed)
             /\ p \notin PathsOf(io_log)
             /\ p \notin PathsOf(ThisLedger)
  /\ scan_results.total_files
       <= Cardinality({f \in Files : ~UnderProtectedDir(f)})

C7_Witness ==
  /\ pc = "done"
  /\ ~ProtectedDir[Root]
  /\ ProtectedDir[DirOf(1)]
  /\ UnderProtectedDir(2)
  /\ \A f \in Files : fs[f].exists /\ fs[f].size >= min_file_size_mb * MB
                        /\ (now - fs[f].mtime) >= max_file_age_days * DAY
  /\ scan_results = EmptyScan

\* C8: for every outcome check_compliance returns, the issues list is
\* non-empty if and only if compliant is false.
C8_Claim ==
  compliance_result # None =>
    (compliance_result.outcome.issues # <<>>
       <=> ~compliance_result.outcome.compliant)

\* the token list of the selected framework's rule
FrameworkTokens(fw) ==
  IF fw = "nist" THEN sensitive_patterns
  ELSE IF fw = "iso27001" THEN classification_markers
  ELSE IF fw = "sox" THEN financial_patterns
  ELSE IF fw = "pci" THEN pci_patterns
  ELSE <<>>

\* C9: a file whose path matches none of the selected framework's tokens
\* (or any file, under an unrecognized framework) evaluates to score 100
\* and compliant.
C9_Claim ==
  compliance_result # None =>
    (~AnyIn(FrameworkTokens(framework), lower(compliance_result.path))
       => /\ compliance_result.outcome.score = 100
          /\ compliance_result.outcome.compliant)

\* the path strings whose lower-cased text holds a cardholder-data token
HasCardToken ==
  [s \in {PathStr(p) : p \in AllPaths} |-> AnyIn(pci_patterns, lower(s))]

\* C10: under pci, a file whose lower-cased full path contains a
\* cardholder-data token evaluates to score 0 and not compliant, and no
\* such file is in orphaned_files.
C10_PciCardholderNeverOrphaned ==
  framework = "pci" =>
    /\ (compliance_result # None /\ HasCardToken[compliance_result.path])
         => /\ compliance_result.outcome.score = 0
            /\ ~compliance_result.outcome.compliant
    /\ \A i \in 1..Len(scan_results.orphaned_files) :
         ~HasCardToken[scan_results.orphaned_files[i].path]

C10_Witness ==
  /\ framework = "pci"
  /\ compliance_result # None
  /\ HasCardToken[compliance_result.path]
  /\ ~AnyIn(pci_patterns, lower(PathName(ParsePath(compliance_result.path))))
  /\ compliance_result.path \in PathsOf(scan_results.compliance_issues)

\* file f is the file of scenario A: passwords.txt, 400 days old, 2 MB, no
\* known-software token in its path, in a directory the scan visits, under
\* nist, with every metadata read succeeding and nothing else touching it
ScenarioA(f) ==
  /\ framework = "nist"
  /\ events = 0
  /\ name[f] = N_passwords
  /\ fs[f].mtime = NOW0 - 400 * DAY
  /\ fs[f].size = 2 * MB
  /\ \A k \in 1..Len(enterprise_software) : Hits[FilePath(f)][k] = {}
  /\ ~ProtectedDir[DirOf(f)]

\* C11 (as stated): the scan records the file of scenario A in
\* compliance_issues, not in orphaned_files, with score 50 and an issue
\* about retention.
C11_Claim ==
  \A f \in Files :
    (ScanReturned /\ ScenarioA(f)) =>
      /\ PathStr(FilePath(f)) \in PathsOf(scan_results.compliance_issues)
      /\ PathStr(FilePath(f)) \notin PathsOf(scan_results.orphaned_files)

\* C11 (amended): the file of scenario A is 400 days old, past the 365
\* days of the nist rule, so the scan records it in orphaned_files with
\* compliance score 100 and not in compliance_issues.
C11_ScenarioAOrphanCompliant ==
  \A f \in Files :
    (ScanReturned /\ ScenarioA(f)) =>
      /\ PathStr(FilePath(f)) \notin PathsOf(scan_results.compliance_issues)
      /\ \E i \in 1..Len(scan_results.orphaned_files) :
           /\ scan_results.orphaned_files[i].path = PathStr(FilePath(f))
           /\ scan_results.orphaned_files[i].compliance_score = 100
           /\ scan_results.orphaned_files[i].size = 2 * MB

C11_Witness ==
  /\ ScanReturned
  /\ ScenarioA(1)
  /\ scan_results.orphaned_files # <<>>
  /\ scan_results.orphaned_files[1].path = PathStr(FilePath(1))
  /\ scan_results.orphaned_files[1].compliance_score = 100
  /\ PathStr(FilePath(1)) \notin PathsOf(scan_results.compliance_issues)

\* C19: every file in orphaned_files was, when the scan classified it, at
\* least max_file_age_days old and at least min_file_size_mb large (the
\* record holds the modification time and the size read in that
\* iteration).
C19_Claim ==
  \A i \in 1..Len(scan_results.orphaned_files) :
    /\ now - scan_results.orphaned_files[i].modified
         >= max_file_age_days * DAY
    /\ scan_results.orphaned_files[i].size >= min_file_size_mb * MB

\* C20: in live mode a file that was modified after the scan recorded it
\* as orphaned, and is therefore younger than max_file_age_days when it is
\* handed to secure_delete_file, is neither written to nor unlinked.
C20_Claim ==
  ~dry_run =>
    \A i \in 1..Len(passed) :
      (/\ passed[i].before.exists
       /\ passed[i].before.mtime > scan_results.orphaned_files[i].modified
       /\ now - passed[i].before.mtime < max_file_age_days * DAY)
        => OpsOn(passed[i].path) = <<>>

FirstRule(c) ==
  IF \E k \in 1..Len(enterprise_software) : Hits[FilePath(c.f)][k] # {}
  THEN "Enterprise software"
  ELSE IF c.t - c.file.mtime < max_file_age_days * DAY
  THEN "File too recent"
  ELSE IF c.file.size < min_file_size_mb * MB
  THEN "File too small"
  ELSE IF Suffix[FilePath(c.f)] \in enterprise_extensions
  THEN "Enterprise file type"
  ELSE "No enterprise links found"

\* C18: the classifier answers protected exactly when a known-software
\* token occurs in the path, the parent's name or the file's name, or the
\* file is younger than max_file_age_days, or smaller than
\* min_file_size_mb, or has a protected extension; its reason is that of
\* the first of these rules that matches.
C18_Claim ==
  \A i \in 1..Len(calls) :
    /\ calls[i].link.is_linked
         <=> FirstRule(calls[i]) # "No enterprise links found"
    /\ calls[i].link.reason.rule = FirstRule(calls[i])

\* run went through its loop and returned all_results
RunCompleted == run_pc = "returned" /\ all_results # None

\* C13: when run has returned, directories_processed holds, for every
\* target directory that exists, one report with a cleanup_summary of that
\* directory, and the run totals are the sums over these reports.
C13_Claim ==
  RunCompleted =>
    /\ \A i \in 1..Len(directories) :
         directories[i].exists =>
           \E j \in 1..Len(all_results.directories_processed) :
             all_results.directories_processed[j].cleanup_summary.directory
               = directories[i].path
    /\ Len(all_results.directories_processed)
         = Cardinality({i \in 1..Len(directories) : directories[i].exists})

\* C14: when run has returned, its error list names every target directory
\* that does not exist.
C14_Claim ==
  RunCompleted =>
    \A i \in 1..Len(directories) :
      ~directories[i].exists =>
        \E j \in 1..Len(all_results.errors) :
          all_results.errors[j].directory = directories[i].path

\* C15: when the configuration is invalid (a required field is missing, or
\* elevation is required and absent), run returns the error result, and
\* nothing was scanned, written or unlinked.
C15_Claim ==
  (run_pc \in {"returned", "raised"}
     /\ validate_configuration(config, elevated) # "true") =>
    /\ run_result = [error |-> "Configuration validation failed"]
    /\ all_results = None
    /\ pc = "idle"
    /\ io_log = <<>>

C17_Claim ==
  /\ \A i, j \in 1..Len(results.deleted_files) :
       results.deleted_files[i].path = results.deleted_files[j].path => i = j
  /\ results.deleted_size = SumSize(results.deleted_files)

\* the path strings whose lower-cased text holds a sensitive-data token
HasSensitiveToken ==
  [s \in {PathStr(p) : p \in AllPaths} |-> AnyIn(sensitive_patterns, lower(s))]

\* C21: under nist, with every metadata read succeeding and the file left
\* alone, a file is evaluated non-compliant with score 50 exactly when its
\* lower-cased full path holds a sensitive-data token and it is younger
\* than 365 days.
C21_Claim ==
  (framework = "nist" /\ events = 0 /\ compliance_result # None) =>
    LET f == FileAt(compliance_result.path)
    IN  (/\ ~compliance_result.outcome.compliant
         /\ compliance_result.outcome.score = 50)
          <=> (/\ HasSensitiveToken[compliance_result.path]
               /\ now - fs[f].mtime < 365 * DAY)

\* C22: in live mode the operations issued on a file handed to
\* secure_delete_file are a prefix of: write zeros, write ones, write
\* random, unlink, each write of the file's full length; an operation that
\* failed is the last one, so the unlink is issued only after three
\* completed passes; True is returned exactly when all four completed.
C22_PassesThenUnlink ==
  ~dry_run =>
    \A i \in 1..Len(passed) :
      LET ops == OpsOn(passed[i].path)
      IN  /\ Len(ops) <= 4
          /\ \A k \in 1..Len(ops) :
               /\ k = 1 => ops[k].op = "write" /\ ops[k].data = "zeros"
               /\ k = 2 => ops[k].op = "write" /\ ops[k].data = "ones"
               /\ k = 3 => ops[k].op = "write" /\ ops[k].data = "random"
               /\ k = 4 => ops[k].op = "unlink"
               /\ k <= 3 => ops[k].length = passed[i].before.size
               /\ k < Len(ops) => ops[k].ok
          /\ passed[i].returned <=> (Len(ops) = 4 /\ ops[4].ok)
          /\ fs[FileAt(passed[i].path)].exists
               \/ (Len(ops) = 4 /\ ops[4].ok) \/ ~passed[i].before.exists

C22_Witness ==
  /\ ~dry_run
  /\ Len(passed) = 2
  /\ Len(OpsOn(passed[1].path)) = 4
  /\ passed[1].returned
  /\ Len(OpsOn(passed[2].path)) = 2
  /\ ~OpsOn(passed[2].path)[2].ok
  /\ fs[FileAt(passed[2].path)].exists

\* C23: the disposal loop hands the entries of orphaned_files to
\* secure_delete_file one by one in list order, whatever the earlier
\* attempts returned: while it runs the attempts made are the first
\* next_orphan - 1 entries, and when the cleanup has completed every entry
\* was attempted exactly once.
C23_EveryOrphanAttemptedOnce ==
  LET orphans == scan_results.orphaned_files
  IN  /\ pc = "dispose" => Len(passed) = next_orphan - 1
      /\ pc = "done" => Len(passed) = Len(orphans)
      /\ pc \in {"dispose", "done"} =>
           \A i \in 1..Len(passed) :
             /\ i <= Len(orphans)
             /\ passed[i].path = orphans[i].path
             /\ Count(passed, passed[i].path) = 1

C23_Witness ==
  /\ pc = "done"
  /\ ~dry_run
  /\ Len(scan_results.orphaned_files) = 2
  /\ Len(passed) = 2
  /\ ~passed[1].returned
  /\ passed[2].returned

\* C24: within one cleanup nothing is overwritten or unlinked, and no
\* disposal is attempted, before scan_with_compliance has returned and
\* analyze_cleanup_impact has returned after it; while the scan or the
\* analysis runs the file operations of the cleanup are none.
C24_ScanThenAnalysisThenDisposal ==
  /\ pc \in {"idle", "scan", "analyze", "raised"} =>
       io_log = <<>> /\ passed = <<>>
  /\ (io_log # <<>> \/ passed # <<>>) =>
       ScanReturned /\ impact_analysis # None
  /\ impact_analysis # None => ScanReturned /\ pc # "analyze"
  /\ pc \in {"dispose", "done"} => impact_analysis # None

C24_Witness ==
  /\ ~dry_run
  /\ pc = "dispose"
  /\ impact_analysis # None
  /\ Len(passed) = 1
  /\ io_log # <<>>
  /\ Len(scan_results.orphaned_files) = 2

\* C25: when analyze_cleanup_impact returns, its risk score is 50 if some
\* orphaned file matches the sensitive-data tokens, plus 30 if some orphaned
\* file was modified less than 7 days before the analysis, plus 20 if some
\* orphaned file's recorded size exceeds 100 MB; the level is high iff the
\* score is at least 80, medium iff it is at least 50 and below 80, and low
\* otherwise.
C25_RiskScoreAndLevel ==
  [][(pc = "analyze" /\ pc' = "dispose") =>
       LET orphans == scan_results.orphaned_files
           some_sensitive ==
             \E i \in 1..Len(orphans) :
               contains_sensitive_data(ParsePath(orphans[i].path))
           some_recent ==
             \E i \in 1..Len(orphans) :
               now - fs[FileAt(orphans[i].path)].mtime < 7 * DAY
           some_large ==
             \E i \in 1..Len(orphans) : orphans[i].size > 100 * MB
           score == (IF some_sensitive THEN 50 ELSE 0)
                      + (IF some_recent THEN 30 ELSE 0)
                      + (IF some_large THEN 20 ELSE 0)
           level == impact_analysis'.risk_level
       IN  /\ impact_analysis' # None
           /\ impact_analysis'.risk_score = score
           /\ level \in {"high", "medium", "low"}
           /\ level = "high" <=> score >= 80
           /\ level = "medium" <=> (50 <= score /\ score < 80)
           /\ level = "low" <=> score < 50]_vars

C25_Witness ==
  /\ impact_analysis # None
  /\ impact_analysis.risk_score = 80
  /\ impact_analysis.risk_level = "high"
  /\ Len(impact_analysis.warnings) = 2

\* no file was rewritten by another process since the cleaner started
NoFileModified == \A f \in Files : fs[f].content # "rewritten"

\* C26: with max_file_age_days at least 7 and no file modified between the
\* scan and the analysis, the analysis finds no orphaned file younger than
\* 7 days: it reports no recent-file warning, its level is not high and
\* the two high-risk recommendations are absent.
C26_Claim ==
  (/\ max_file_age_days >= 7
   /\ NoFileModified
   /\ impact_analysis # None) =>
     /\ \A i \in 1..Len(impact_analysis.warnings) :
          impact_analysis.warnings[i].about # "recent"
     /\ impact_analysis.risk_level # "high"
     /\ \A i \in 1..Len(impact_analysis.recommendations) :
          impact_analysis.recommendations[i]
            \notin {"Review all files before deletion",
                     "Consider running in dry-run mode first"}

\* the same statement for the cleanups in which no stat failed
C26_HoldsWhenEveryStatSucceeds == events = 0 => C26_Claim

\* C27: once an abort has been requested, the scan walk processes no
\* further file and the disposal loop hands no further file to
\* secure_delete_file.
C27_Claim ==
  [][abort => (reached' = reached /\ passed' = passed)]_vars

\* the number of entries of a sequence of hosts that name host h
HostCount(hosts, h) ==
  Cardinality({i \in 1..Len(hosts) : hosts[i] = h})

\* C28: while batch_deploy collects, the entries recorded are as many as
\* successful + failed; when it returns for a non-empty list of hosts,
\* total_hosts is the number of hosts, every host has as many result
\* entries as the list names it (exactly one each time), and
\* successful + failed = total_hosts, also when the deployment of one of
\* the hosts failed.
C28_OneResultPerHost ==
  /\ batch_pc = "collect" =>
       /\ Len(deployment_results.results)
            = deployment_results.successful + deployment_results.failed
       /\ Len(deployment_results.results)
            = Cardinality({i \in 1..Len(futures) :
                            futures[i].state = "collected"})
  /\ (batch_pc = "returned" /\ target_hosts # <<>>) =>
       /\ deployment_results.total_hosts = Len(target_hosts)
       /\ deployment_results.successful + deployment_results.failed
            = deployment_results.total_hosts
       /\ \A h \in Hosts :
            HostCount([i \in 1..Len(deployment_results.results) |->
                         deployment_results.results[i].host], h)
              = HostCount(target_hosts, h)

C28_Witness ==
  /\ batch_pc = "returned"
  /\ target_hosts = <<"localhost", "host1">>
  /\ Len(deployment_results.results) = 2
  /\ deployment_results.results[1].host = "host1"
  /\ deployment_results.results[2].host = "localhost"
  /\ "error" \in DOMAIN deployment_results.results[2].result

\* C29: in what batch_deploy returns, a host whose deploy_to_host ended
\* with an error result (its own, or the one it makes of an exception) has
\* status failed, and failed counts these hosts.
C29_Claim ==
  (batch_pc = "returned" /\ target_hosts # <<>>) =>
    LET entries == deployment_results.results
        Failed(i) == "error" \in DOMAIN deploy_to_host(entries[i].host, config)
    IN  /\ \A i \in 1..Len(entries) :
             Failed(i) => entries[i].status = "failed"
        /\ deployment_results.failed
             = Cardinality({i \in 1..Len(entries) : Failed(i)})

\* C30: the rule check_compliance applies is the rule of the framework the
\* configuration's security_framework key (under 'enterprise') names: the
\* outcome it returns for a file is that rule's outcome.
C30_Claim ==
  compliance_result # None =>
    LET f == FileAt(compliance_result.path)
    IN  compliance_result.outcome
          = check_compliance(config.enterprise.security_framework,
                             FilePath(f), now, Stat(f, {}, "compliance"))

====
